---- MODULE Spec2Model ----
(***************************************************************************)
(* FLAME GPU 2 device runtime: the device error reporter                   *)
(* (FGPUDeviceException_device.h), the per-thread API (DeviceAPI.h) and     *)
(* array messaging (messaging/Array.h), as state machines over the threads  *)
(* of one kernel launch.                                                    *)
(***************************************************************************)
EXTENDS Integers, Sequences, FiniteSets, TLC

(***************************************************************************)
(* Bounds of the model.                                                    *)
(***************************************************************************)
\* threads of the largest launch
NThreads == 3
\* threads (agents) of an agent function's launch
NAgents == 2
\* threads per block (blockDim.x)
BlockDim == 2
\* DTHROW calls made in one launch, by all threads together
MaxFails == 4

(***************************************************************************)
(* Program constants.  The buffer lengths are those of                     *)
(* DeviceExceptionBuffer scaled down (source: 20, 4096, 4096, 1024); the   *)
(* code only compares against them.  As in the source, FORMAT_BUFF_LEN     *)
(* exceeds FILE_BUFF_LEN by more than the 28 bytes of line_no, block_id    *)
(* and thread_id that lie between the two character fields.  UINT_MAX is   *)
(* 2^32-1 in the source; the model checker's integers end at 2^31-1, which *)
(* stands for it here.                                                     *)
(***************************************************************************)
MAX_ARGS == 2
ARG_BUFF_LEN == 8
FORMAT_BUFF_LEN == 30
FILE_BUFF_LEN == 2
UINT_MAX == 2147483647
\* sizeof(unsigned int), the type of every argument the DTHROW sites pass
SizeofUInt == 4

Threads == 0 .. (NThreads - 1)
Agents == 0 .. (NAgents - 1)

\* blockIdx.x and threadIdx.x of thread t of a one-dimensional launch
blockIdx(t) == t \div BlockDim
threadIdx(t) == t % BlockDim

\* (blockDim.x * blockIdx.x) + threadIdx.x, the logical index of a thread
ThreadIndex(t) == (BlockDim * blockIdx(t)) + threadIdx(t)

Indices == 0 .. (NThreads - 1)

VARIABLES
    pc,             \* [Threads -> position of the thread]
    exc,            \* [Threads -> the DeviceException object the thread holds]
    buff,           \* the launch's DeviceExceptionBuffer
    failed,         \* threads that called DTHROW (history)
    claimants,      \* threads whose getErrorCount() returned 0 (history)
    detailWriters,  \* threads that wrote a detail field of buff (history)
    agentVars,      \* [index -> [key -> value]]: the agent variable buffers
    watch,          \* the setVariable call being followed (history)
    ret,            \* what the followed thread's getVariable returned
    agent_output_hash,  \* AgentOut::agent_output_hash, 0 when output is disabled
    idNotSet,       \* the value of ID_NOT_SET
    agentOut,       \* nextID, the threads' private id, scan flags, new agents
    incs,           \* [Threads -> atomic increments of nextID made] (history)
    length,         \* MetaData::length of the message list
    seatbelts,      \* FALSE when built with NO_SEATBELTS
    msgOut,         \* [index -> candidate message slot of the thread]
    sent,           \* [Threads -> [name -> value passed to setVariable]] (history)
    scan_flag_messageOutput, \* [index -> message output scan flag]
    msgList,        \* [bin -> message]: the built message list
    write_flag,     \* the build's write-flag buffer
    copied,         \* [Threads -> fields the scatter thread has copied]
    phase,          \* output kernel, scatter, gap scan, ready
    filter,         \* the In::Filter a thread holds
    iter,           \* the Filter::iterator it advances
    visited,        \* the bins read so far in the traversal
    fn,             \* the kind of agent function the launch runs
    call,           \* the API call the last step made, with what it returned (history)
    handle          \* [Threads -> the MsgArray::Message the thread holds]

errVars == <<pc, exc, buff, failed, claimants, detailWriters>>
apiVars == <<agentVars, watch, ret>>
outVars == <<agent_output_hash, idNotSet, agentOut, incs>>
msgVars == <<length, seatbelts, msgOut, sent, scan_flag_messageOutput, msgList, write_flag, copied, phase>>
iterVars == <<filter, iter, visited>>
callVars == <<fn, call, handle>>
vars == <<errVars, apiVars, outVars, msgVars, iterVars, callVars>>

(***************************************************************************)
(* Strings are sequences of non-zero characters; the terminating '\0' is   *)
(* implicit.  CharAt reads c[eos] of such a string.                        *)
(***************************************************************************)
CharAt(s, eos) == IF eos < Len(s) THEN s[eos + 1] ELSE 0

Zeros(n) == [i \in 1 .. n |-> 0]

\* memcpy(dst + off, src, n): byte i of src goes to dst[off + i]; src is read
\* as a string (zero past its end); dst is the memory the copy can reach
Memcpy(dst, off, src, n) ==
    [i \in 1 .. Len(dst) |->
        IF i > off /\ i <= off + n THEN CharAt(src, i - off - 1) ELSE dst[i]]

\* the raw bytes of an unsigned value v < 256 of size n, little-endian
Bytes(v, n) == [i \in 1 .. n |-> IF i = 1 THEN v ELSE 0]

\* a zeroed DeviceExceptionBuffer, as the host resets it before a launch
ZeroBuffer ==
    [error_count |-> 0,
     file_path |-> Zeros(FILE_BUFF_LEN),
     line_no |-> 0,
     block_id |-> <<0, 0, 0>>,
     thread_id |-> <<0, 0, 0>>,
     format_string |-> Zeros(FORMAT_BUFF_LEN),
     format_args_sizes |-> Zeros(MAX_ARGS),
     format_args |-> Zeros(ARG_BUFF_LEN),
     arg_count |-> 0,
     arg_offset |-> 0]

\* variant: the counter is left as it was
AtomicIncStuck(old, val) == old
\* CUDA atomicInc(addr, val): the new value stored for old value `old`
AtomicInc(old, val) == IF old >= val THEN 0 ELSE old + 1

\* variant: the counter is read and not incremented
getErrorCount_ReadOnly(b) == [ret |-> b.error_count, buff |-> b]
\* DeviceException::getErrorCount: increments error_count, returns the old value
getErrorCount(b) ==
    [ret |-> b.error_count,
     buff |-> [b EXCEPT !.error_count = AtomicInc(b.error_count, UINT_MAX)]]

\* variant: every failing thread takes itself for the owner
HasErrorAnyThread(old) == TRUE
\* variant: the second failing thread also takes itself for the owner
HasErrorFirstTwo(old) == (old <= 1)
\* variant: no failing thread takes itself for the owner
HasErrorNever(old) == FALSE
\* hasError(!getErrorCount()): the thread that read 0 owns the error
HasError(old) == (old = 0)

\* DeviceException::strlen, on a string: the length with the terminator
RECURSIVE strlenFrom(_, _)
strlenFrom(c, eos) ==
    IF eos < FORMAT_BUFF_LEN /\ ~(CharAt(c, eos) = 0 \/ eos >= FORMAT_BUFF_LEN)
    THEN strlenFrom(c, eos + 1)
    ELSE eos + 1
strlen(c) == strlenFrom(c, 0)

\* the memory of the buffer from file_path to the end of format_string, in
\* the order the struct declares the fields; an unsigned int is four bytes
Layout(b) ==
    LET UIntBytes(v) == [i \in 1 .. SizeofUInt |-> (v \div (256 ^ (i - 1))) % 256] IN
    b.file_path \o UIntBytes(b.line_no)
        \o UIntBytes(b.block_id[1]) \o UIntBytes(b.block_id[2]) \o UIntBytes(b.block_id[3])
        \o UIntBytes(b.thread_id[1]) \o UIntBytes(b.thread_id[2]) \o UIntBytes(b.thread_id[3])
        \o b.format_string
\* the buffer whose fields from file_path to format_string hold the bytes m
FromLayout(b, m) ==
    LET u == FILE_BUFF_LEN
        w == SizeofUInt
        UIntOf(off) ==
            m[off + 1] + (256 * m[off + 2]) + (65536 * m[off + 3]) + (16777216 * m[off + 4])
    IN
    [b EXCEPT !.file_path = SubSeq(m, 1, u),
              !.line_no = UIntOf(u),
              !.block_id = <<UIntOf(u + w), UIntOf(u + (2 * w)), UIntOf(u + (3 * w))>>,
              !.thread_id = <<UIntOf(u + (4 * w)), UIntOf(u + (5 * w)), UIntOf(u + (6 * w))>>,
              !.format_string = SubSeq(m, u + (7 * w) + 1, u + (7 * w) + FORMAT_BUFF_LEN)]

\* memcpy(buff[0]->file_path, file, strlen(file)): the bytes go to file_path
\* and, past its FILE_BUFF_LEN bytes, to the fields that follow it
FilePathCopy(b, file) == FromLayout(b, Memcpy(Layout(b), 0, file, strlen(file)))

\* the body of the constructor for the owner: file, line, block and thread ids
CtorWrite(b, t, file, line) ==
    [FilePathCopy(b, file) EXCEPT
              !.line_no = line,
              !.block_id = <<blockIdx(t), 0, 0>>,
              !.thread_id = <<threadIdx(t), 0, 0>>]

\* variant: the argument is appended without looking at the space left
subformat_NoFit(b, a) ==
    LET size == IF a.str THEN strlen(a.val) ELSE a.size IN
    IF b.arg_count < MAX_ARGS
    THEN [b EXCEPT
            !.format_args_sizes[b.arg_count + 1] = size,
            !.format_args = Memcpy(b.format_args, b.arg_offset, a.val, size),
            !.arg_count = b.arg_count + 1,
            !.arg_offset = b.arg_offset + size]
    ELSE b
\* subformat<T> and subformat<const char *>: one argument appended if it
\* fits; a = [size, val, str], with val the bytes of a scalar of sizeof(T) =
\* size, or the characters of a string, whose size is its strlen
subformat(b, a) ==
    LET size == IF a.str THEN strlen(a.val) ELSE a.size IN
    IF b.arg_count < MAX_ARGS /\ b.arg_offset + size <= ARG_BUFF_LEN
    THEN [b EXCEPT
            !.format_args_sizes[b.arg_count + 1] = size,
            !.format_args = Memcpy(b.format_args, b.arg_offset, a.val, size),
            !.arg_count = b.arg_count + 1,
            !.arg_offset = b.arg_offset + size]
    ELSE b

\* subformat_recurse: the arguments in the order passed
RECURSIVE subformat_recurse(_, _)
subformat_recurse(b, args) ==
    IF args = <<>> THEN b
    ELSE subformat_recurse(subformat(b, Head(args)), Tail(args))

\* the eos loop of setMessage: the format's length, at most FORMAT_BUFF_LEN
RECURSIVE FormatEos(_, _)
FormatEos(format, eos) ==
    IF eos < FORMAT_BUFF_LEN /\ CharAt(format, eos) # 0
    THEN FormatEos(format, eos + 1)
    ELSE eos

\* variant: the format string is not looked at before writing
setMessage_NoGuard(b, he, format, args) ==
    IF he
    THEN subformat_recurse(
           [b EXCEPT !.format_string =
               Memcpy(b.format_string, 0, format, FormatEos(format, 0))],
           args)
    ELSE b
\* DeviceException::setMessage for a thread whose object has hasError = he
setMessage(b, he, format, args) ==
    IF he
    THEN IF b.format_string[1] # 0
         THEN b
         ELSE subformat_recurse(
                [b EXCEPT !.format_string =
                    Memcpy(b.format_string, 0, format, FormatEos(format, 0))],
                args)
    ELSE b

(***************************************************************************)
(* The DTHROW sites of the source: file, line, format and arguments.       *)
(***************************************************************************)
File_DeviceAPI == <<1>>
File_Array == <<2>>
\* DeviceAPI.h below a build directory whose path is longer than any buffer
File_Deep == [i \in 1 .. (FORMAT_BUFF_LEN + 1) |-> 1]
Fmt_AgentOutput == <<1, 2>>
Fmt_Radius == <<3>>
Fmt_Index == <<4, 5, 6>>

UIntArg(v) == [size |-> SizeofUInt, val |-> Bytes(v, SizeofUInt), str |-> FALSE]
\* a string argument: its size is found by strlen when it is recorded
StrArg(c) == [size |-> 0, val |-> c, str |-> TRUE]

Site_AgentOutSet == [file |-> File_DeviceAPI, line |-> 357, format |-> Fmt_AgentOutput, args |-> <<>>]
Site_AgentOutSetArray == [file |-> File_DeviceAPI, line |-> 378, format |-> Fmt_AgentOutput, args |-> <<>>]
Site_AgentOutGetID == [file |-> File_DeviceAPI, line |-> 390, format |-> Fmt_AgentOutput, args |-> <<>>]
Site_Deep == [file |-> File_Deep, line |-> 390, format |-> Fmt_AgentOutput, args |-> <<>>]
\* a DTHROW whose format is the empty string, with one argument
Site_Empty == [file |-> File_DeviceAPI, line |-> 390, format |-> <<>>, args |-> <<UIntArg(1)>>]
Site_Radius(radius, len) == [file |-> File_Array, line |-> 259, format |-> Fmt_Radius, args |-> <<UIntArg(radius), UIntArg(len)>>]
Site_Index(index, len) == [file |-> File_Array, line |-> 273, format |-> Fmt_Index, args |-> <<UIntArg(index), UIntArg(len)>>]

NoSite == [file |-> <<>>, line |-> 0, format |-> <<>>, args |-> <<>>]
NoExc == [site |-> NoSite, hasError |-> FALSE, resume |-> "run"]

(***************************************************************************)
(* DTHROW(format, args) is DeviceException::create(__FILE__, __LINE__)     *)
(* .setMessage(format, args): the constructor's atomic increment, then the *)
(* constructor's body, then setMessage.  The thread continues afterwards.  *)
(***************************************************************************)
\* the call and the constructor's initialiser list: the atomic increment;
\* resume is where the thread continues after the DTHROW statement
DThrowBegin(t, site, resume) ==
    LET r == getErrorCount(buff) IN
    /\ buff.error_count < MaxFails
    /\ buff' = r.buff
    /\ exc' = [exc EXCEPT ![t] = [site |-> site, hasError |-> HasError(r.ret), resume |-> resume]]
    /\ claimants' = IF r.ret = 0 THEN claimants \cup {t} ELSE claimants
    /\ failed' = failed \cup {t}
    /\ pc' = [pc EXCEPT ![t] = "ctor"]
    /\ UNCHANGED detailWriters

\* the constructor's body
DeviceExceptionCtor(t) ==
    /\ pc[t] = "ctor"
    /\ IF exc[t].hasError
       THEN /\ buff' = CtorWrite(buff, t, exc[t].site.file, exc[t].site.line)
            /\ detailWriters' = detailWriters \cup {t}
       ELSE UNCHANGED <<buff, detailWriters>>
    /\ pc' = [pc EXCEPT ![t] = "setMessage"]
    /\ UNCHANGED <<exc, failed, claimants>>

\* setMessage, after which the DeviceException temporary is gone
DeviceExceptionSetMessage(t) ==
    /\ pc[t] = "setMessage"
    /\ buff' = setMessage(buff, exc[t].hasError, exc[t].site.format, exc[t].site.args)
    /\ detailWriters' = IF buff' # buff THEN detailWriters \cup {t} ELSE detailWriters
    /\ exc' = [exc EXCEPT ![t] = NoExc]
    /\ pc' = [pc EXCEPT ![t] = exc[t].resume]
    /\ UNCHANGED <<failed, claimants>>

\* the thread's agent function returns
ThreadReturn(t) ==
    /\ pc[t] = "run"
    /\ pc' = [pc EXCEPT ![t] = "done"]
    /\ UNCHANGED <<exc, buff, failed, claimants, detailWriters>>

LaunchDone == \A t \in Threads : pc[t] = "done"

InitErr ==
    /\ pc = [t \in Threads |-> "run"]
    /\ exc = [t \in Threads |-> NoExc]
    /\ buff = ZeroBuffer
    /\ failed = {}
    /\ claimants = {}
    /\ detailWriters = {}


(***************************************************************************)
(* Variable names are character sequences, so that variable_name[0] can be *)
(* read.  Values are small unsigned integers; a buffer cell holds 0 until  *)
(* it is written.                                                          *)
(***************************************************************************)
Name_x == <<"x">>
Name_y == <<"y">>
Name_arr == <<"a", "r", "r">>
Name_id == <<"_", "i", "d">>
Name_rarr == <<"_", "a">>

\* variable_name[0] == '_'
Reserved(name) == name[1] = "_"

\* the template parameter N of the array forms: the array variable's length
ArrayLen == 2
ArrayIndices == 0 .. (ArrayLen - 1)
\* the array indices the modelled agent functions use: first and last
ArrayInputs == {0, ArrayLen - 1}

ScalarNames == {Name_x, Name_id}
ArrayNames == {Name_arr, Name_rarr}
\* the values the modelled agent functions write
ScalarValues == {1, 2}
ArrayValues == {1}

\* the cells one agent has: a scalar is element 0 of its name
Keys == {<<n, 0>> : n \in ScalarNames} \cup (ArrayNames \X ArrayIndices)

\* Curve: the table from (namespace, name) to a device buffer, one cell per
\* logical index and array element
CurveSet(store, name, k, value, index) ==
    [store EXCEPT ![index][<<name, k>>] = value]
CurveGet(store, name, k, index) == store[index][<<name, k>>]

(***************************************************************************)
(* ReadOnlyDeviceAPI / DeviceAPI: the executing agent's own variables.     *)
(***************************************************************************)
\* ReadOnlyDeviceAPI::getVariable<T, N>(variable_name)
DeviceAPI_getVariable(store, t, name) ==
    CurveGet(store, name, 0, ThreadIndex(t))

\* variant: the reserved prefix is not looked at
DeviceAPI_setVariable_NoGuard(store, t, name, value) ==
    CurveSet(store, name, 0, value, ThreadIndex(t))
\* variant: the write goes to the first agent's cell
DeviceAPI_setVariable_Index0(store, t, name, value) ==
    IF Reserved(name) THEN store
    ELSE CurveSet(store, name, 0, value, 0)
\* DeviceAPI::setVariable<T, N>(variable_name, value)
DeviceAPI_setVariable(store, t, name, value) ==
    IF Reserved(name) THEN store
    ELSE CurveSet(store, name, 0, value, ThreadIndex(t))

\* ReadOnlyDeviceAPI::getVariable<T, N, M>(variable_name, array_index)
DeviceAPI_getArrayVariable(store, t, name, array_index) ==
    CurveGet(store, name, array_index, ThreadIndex(t))

\* DeviceAPI::setVariable<T, N, M>(variable_name, array_index, value)
DeviceAPI_setArrayVariable(store, t, name, array_index, value) ==
    IF Reserved(name) THEN store
    ELSE CurveSet(store, name, array_index, value, ThreadIndex(t))

NoWatch == [t |-> -1, key |-> <<>>, val |-> 0]
NoRet == 0 - 1

\* history: the first thread to write a non-reserved variable is followed,
\* with the cell and the value of its latest write
Follow(t, name, k, value) ==
    IF ~Reserved(name) /\ watch.t \in {-1, t}
    THEN /\ watch' = [t |-> t, key |-> <<name, k>>, val |-> value]
         /\ ret' = NoRet
    ELSE UNCHANGED <<watch, ret>>

\* history: what the followed thread reads back from the cell it wrote
Observe(t, name, k, value) ==
    /\ ret' = IF watch.t = t /\ watch.key = <<name, k>> THEN value ELSE ret
    /\ UNCHANGED watch

SetVariable(t, name, value) ==
    /\ pc[t] = "run"
    /\ agentVars' = DeviceAPI_setVariable(agentVars, t, name, value)
    /\ Follow(t, name, 0, value)

SetArrayVariable(t, name, array_index, value) ==
    /\ pc[t] = "run"
    /\ agentVars' = DeviceAPI_setArrayVariable(agentVars, t, name, array_index, value)
    /\ Follow(t, name, array_index, value)

GetVariable(t, name) ==
    /\ pc[t] = "run"
    /\ Observe(t, name, 0, DeviceAPI_getVariable(agentVars, t, name))
    /\ UNCHANGED agentVars

GetArrayVariable(t, name, array_index) ==
    /\ pc[t] = "run"
    /\ Observe(t, name, array_index,
               DeviceAPI_getArrayVariable(agentVars, t, name, array_index))
    /\ UNCHANGED agentVars

InitApi ==
    /\ agentVars = [i \in Indices |-> [k \in Keys |-> 0]]
    /\ watch = NoWatch
    /\ ret = NoRet

(***************************************************************************)
(* DeviceAPI::AgentOut: the new agent a thread may output.                 *)
(***************************************************************************)
\* std::numeric_limits<id_t>().max(), scaled down
ID_MAX == 4

\* variant: the counter is read but not advanced
genID_NoIncrement(o, t) ==
    IF o.id[t] = idNotSet
    THEN [o EXCEPT !.id[t] = o.nextID,
                   !.vars = CurveSet(o.vars, Name_id, 0, o.nextID, ThreadIndex(t)),
                   !.scan_flag[ThreadIndex(t)] = 1]
    ELSE o
\* variant: the id is assigned and the scan flag is left as it was
genID_NoScanFlag(o, t) ==
    IF o.id[t] = idNotSet
    THEN [o EXCEPT !.nextID = AtomicInc(o.nextID, ID_MAX),
                   !.id[t] = o.nextID,
                   !.vars = CurveSet(o.vars, Name_id, 0, o.nextID, ThreadIndex(t))]
    ELSE o
\* AgentOut::genID: the id and the scan flag, assigned while id is ID_NOT_SET
genID(o, t) ==
    IF o.id[t] = idNotSet
    THEN [o EXCEPT !.nextID = AtomicInc(o.nextID, ID_MAX),
                   !.id[t] = o.nextID,
                   !.vars = CurveSet(o.vars, Name_id, 0, o.nextID, ThreadIndex(t)),
                   !.scan_flag[ThreadIndex(t)] = 1]
    ELSE o

\* AgentOut::setVariable<T, N>, output enabled
AgentOut_setVariable(o, t, name, value) ==
    IF Reserved(name) THEN o
    ELSE genID([o EXCEPT !.vars = CurveSet(o.vars, name, 0, value, ThreadIndex(t))], t)

\* AgentOut::setVariable<T, N, M>, output enabled
AgentOut_setArrayVariable(o, t, name, array_index, value) ==
    IF Reserved(name) THEN o
    ELSE genID([o EXCEPT !.vars = CurveSet(o.vars, name, array_index, value, ThreadIndex(t))], t)

\* history: the atomic increments of nextID a call of thread t made
CountIncs(t) ==
    incs' = [incs EXCEPT ![t] = @ + (IF agentOut'.nextID # agentOut.nextID THEN 1 ELSE 0)]

AgentOutSetVariable(t, name, value) ==
    /\ pc[t] = "run"
    /\ IF agent_output_hash # 0
       THEN /\ agentOut' = AgentOut_setVariable(agentOut, t, name, value)
            /\ CountIncs(t)
            /\ UNCHANGED errVars
       ELSE /\ DThrowBegin(t, Site_AgentOutSet, "run")
            /\ UNCHANGED <<agentOut, incs>>
    /\ UNCHANGED <<agent_output_hash, idNotSet>>

AgentOutSetArrayVariable(t, name, array_index, value) ==
    /\ pc[t] = "run"
    /\ IF agent_output_hash # 0
       THEN /\ agentOut' = AgentOut_setArrayVariable(agentOut, t, name, array_index, value)
            /\ CountIncs(t)
            /\ UNCHANGED errVars
       ELSE /\ DThrowBegin(t, Site_AgentOutSetArray, "run")
            /\ UNCHANGED <<agentOut, incs>>
    /\ UNCHANGED <<agent_output_hash, idNotSet>>

\* variant: the counter's value is returned while output is disabled
getID_return_NextID(hash, o, t) ==
    IF hash # 0 THEN genID(o, t).id[t] ELSE o.nextID
\* AgentOut::getID: the value returned
getID_return(hash, o, t) ==
    IF hash # 0 THEN genID(o, t).id[t] ELSE idNotSet

\* AgentOut::getID; the id returned is agentOut'.id[t], or ID_NOT_SET when disabled
AgentOutGetID(t) ==
    /\ pc[t] = "run"
    /\ IF agent_output_hash # 0
       THEN /\ agentOut' = genID(agentOut, t)
            /\ CountIncs(t)
            /\ UNCHANGED errVars
       ELSE /\ DThrowBegin(t, Site_AgentOutGetID, "run")
            /\ UNCHANGED <<agentOut, incs>>
    /\ UNCHANGED <<agent_output_hash, idNotSet>>

\* the new agent's buffers before the launch: defaults, no id, flags reset to 0
InitOutWith(hash, notSet, next) ==
    /\ agent_output_hash = hash
    /\ idNotSet = notSet
    /\ agentOut = [nextID |-> next,
                   id |-> [t \in Threads |-> notSet],
                   scan_flag |-> [i \in Indices |-> 0],
                   vars |-> [i \in Indices |->
                               [k \in Keys |-> IF k = <<Name_id, 0>> THEN notSet ELSE 0]]]
    /\ incs = [t \in Threads |-> 0]

\* a launch of a function that declared agent output: any sentinel the id
\* type offers at its ends, any value of the counter
InitOut ==
    \E notSet \in {0, ID_MAX}, next \in 0 .. ID_MAX :
        InitOutWith(1, notSet, next)

(***************************************************************************)
(* MsgArray::Out: a thread's candidate message, in the slot of its own     *)
(* logical index, and the bin it declares for it.                          *)
(***************************************************************************)
\* the declared length L of the message list
MsgLength == 2
Bins == 0 .. (MsgLength - 1)

\* the message's variables, in the order the build copies them
MsgNames == <<Name_x, Name_y>>
MsgNameSet == {MsgNames[i] : i \in 1 .. Len(MsgNames)}

\* the value thread t's agent function computes for a message variable
MsgInput(t, name) == IF name = Name_x THEN 10 + t ELSE 20 + t

\* variant: the write goes to the first candidate slot
MsgOut_setVariable_Index0(out, t, name, value) ==
    IF Reserved(name) THEN out
    ELSE [out EXCEPT ![0].vars[name] = value]
\* variant: the write also resets the declared bin
MsgOut_setVariable_ResetsIndex(out, t, name, value) ==
    IF Reserved(name) THEN out
    ELSE [out EXCEPT ![ThreadIndex(t)].vars[name] = value, ![ThreadIndex(t)].index = 0]
\* variant: the write goes to the next thread's slot
MsgOut_setVariable_Neighbour(out, t, name, value) ==
    IF Reserved(name) THEN out
    ELSE [out EXCEPT ![(ThreadIndex(t) + 1) % NAgents].vars[name] = value]
\* MsgArray::Out::setVariable<T, N>(variable_name, value)
MsgOut_setVariable(out, t, name, value) ==
    IF Reserved(name) THEN out
    ELSE [out EXCEPT ![ThreadIndex(t)].vars[name] = value]

\* MsgArray::Out::setIndex(id): the slot's index variable
MsgOut_setIndex(out, t, id) ==
    [out EXCEPT ![ThreadIndex(t)].index = id]

\* MsgArray::Out::setIndex(id): the thread's message scan flag
MsgOut_setIndexFlag(flags, t) == [flags EXCEPT ![ThreadIndex(t)] = 1]

\* a thread's message output: the candidate slots and the scan flags, and what
\* each of the two calls makes of them
OutState(out, flags) == [out |-> out, flags |-> flags]
Out_setIndex(st, t, id) ==
    OutState(MsgOut_setIndex(st.out, t, id), MsgOut_setIndexFlag(st.flags, t))
Out_setVariable(st, t, name, value) ==
    OutState(MsgOut_setVariable(st.out, t, name, value), st.flags)

MsgOutSetVariable(t, name, value) ==
    /\ phase = "output"
    /\ pc[t] = "run"
    /\ msgOut' = MsgOut_setVariable(msgOut, t, name, value)
    /\ sent' = IF Reserved(name) THEN sent ELSE [sent EXCEPT ![t][name] = value]
    /\ UNCHANGED <<length, seatbelts, scan_flag_messageOutput, msgList, write_flag, copied, phase>>

\* setIndex also sets the thread's message scan flag
MsgOutSetIndex(t, id) ==
    /\ phase = "output"
    /\ pc[t] = "run"
    /\ msgOut' = MsgOut_setIndex(msgOut, t, id)
    /\ scan_flag_messageOutput' = MsgOut_setIndexFlag(scan_flag_messageOutput, t)
    /\ UNCHANGED <<length, seatbelts, sent, msgList, write_flag, copied, phase>>

(***************************************************************************)
(* MsgArray::CUDAModelHandler::buildIndex: reset, scatter kernel with the  *)
(* atomic claim of the bin's write flag, gap scan.                         *)
(***************************************************************************)
File_Build == <<3>>
Fmt_Collision == <<7>>
Fmt_Gap == <<8>>
Site_Collision(bin) == [file |-> File_Build, line |-> 1, format |-> Fmt_Collision, args |-> <<UIntArg(bin)>>]
Site_Gap(bin) == [file |-> File_Build, line |-> 2, format |-> Fmt_Gap, args |-> <<UIntArg(bin)>>]

Max(a, b) == IF a >= b THEN a ELSE b

ZeroMessage == [n \in MsgNameSet |-> 0]

\* variant: every candidate slot is taken for a live candidate
Live_Always(i) == TRUE
\* the candidate of logical index i is live: its message scan flag is set
Live(i) == scan_flag_messageOutput[i] = 1

\* the reset buffers: the message list of len bins, the write flags
ResetList(len) == [b \in 0 .. (len - 1) |-> ZeroMessage]
\* variant: the write flags are left as the previous build left them
ResetFlags_Stale(len, n) == write_flag
ResetFlags(len, n) == [i \in 0 .. (Max(len, n) - 1) |-> 0]

\* variant: the bin after the declared one is written
Scatter_bin_Next(out, t) == out[ThreadIndex(t)].index + 1
\* the bin a scatter thread writes: the one its candidate declared
Scatter_bin(out, t) == out[ThreadIndex(t)].index

\* step 1, on the host once the output kernel has ended: both buffers are
\* reset and the scatter kernel is launched, one thread per candidate
BuildIndexReset ==
    /\ phase = "output"
    /\ \A t \in Agents : pc[t] = "done"
    /\ msgList' = ResetList(length)
    /\ write_flag' = ResetFlags(length, NAgents)
    /\ pc' = [t \in Threads |-> IF t \in Agents THEN "scatter" ELSE "done"]
    /\ copied' = [t \in Threads |-> 0]
    /\ phase' = "scatter"
    /\ UNCHANGED <<exc, buff, failed, claimants, detailWriters>>
    /\ UNCHANGED <<length, seatbelts, msgOut, sent, scan_flag_messageOutput>>

\* step 2: a scatter thread whose candidate is live (its scan flag is set)
\* copies the candidate's next variable into the declared bin
ScatterCopy(t) ==
    LET i == ThreadIndex(t)
        name == MsgNames[copied[t] + 1]
    IN
    /\ phase = "scatter"
    /\ pc[t] = "scatter"
    /\ IF Live(i)
       THEN /\ msgList' = [msgList EXCEPT ![Scatter_bin(msgOut, t)][name] = msgOut[i].vars[name]]
            /\ copied' = [copied EXCEPT ![t] = @ + 1]
            /\ pc' = [pc EXCEPT ![t] =
                        IF copied[t] + 1 < Len(MsgNames) THEN "scatter"
                        ELSE IF seatbelts THEN "claim" ELSE "done"]
       ELSE /\ pc' = [pc EXCEPT ![t] = "done"]
            /\ UNCHANGED <<msgList, copied>>
    /\ UNCHANGED <<exc, buff, failed, claimants, detailWriters>>
    /\ UNCHANGED <<length, seatbelts, msgOut, sent, scan_flag_messageOutput, write_flag, phase>>

\* step 3: the bin's write flag is claimed atomically; a failed claim is a
\* collision, reported through the error reporter
ScatterClaim(t) ==
    LET bin == Scatter_bin(msgOut, t) IN
    /\ phase = "scatter"
    /\ pc[t] = "claim"
    /\ write_flag' = [write_flag EXCEPT ![bin] = 1]
    /\ IF write_flag[bin] # 0
       THEN DThrowBegin(t, Site_Collision(bin), "done")
       ELSE /\ pc' = [pc EXCEPT ![t] = "done"]
            /\ UNCHANGED <<exc, buff, failed, claimants, detailWriters>>
    /\ UNCHANGED <<length, seatbelts, msgOut, sent, scan_flag_messageOutput, msgList, copied, phase>>

\* on the host once the scatter kernel has ended: the gap scan is launched,
\* one thread per bin (it is a check, elided without seatbelts)
BuildIndexScan ==
    /\ phase = "scatter"
    /\ \A t \in Threads : pc[t] = "done"
    /\ IF seatbelts
       THEN /\ pc' = [t \in Threads |-> IF t < length THEN "scan" ELSE "done"]
            /\ phase' = "scan"
       ELSE /\ phase' = "ready"
            /\ UNCHANGED pc
    /\ UNCHANGED <<exc, buff, failed, claimants, detailWriters>>
    /\ UNCHANGED <<length, seatbelts, msgOut, sent, scan_flag_messageOutput, msgList, write_flag, copied>>

\* step 4: a bin whose write flag was never claimed is a gap
GapScan(k) ==
    /\ phase = "scan"
    /\ pc[k] = "scan"
    /\ IF write_flag[k] = 0
       THEN DThrowBegin(k, Site_Gap(k), "done")
       ELSE /\ pc' = [pc EXCEPT ![k] = "done"]
            /\ UNCHANGED <<exc, buff, failed, claimants, detailWriters>>
    /\ UNCHANGED msgVars

\* the build has ended: the list is handed to the next kernel's input channel
BuildIndexEnd ==
    /\ phase = "scan"
    /\ \A t \in Threads : pc[t] = "done"
    /\ phase' = "ready"
    /\ UNCHANGED errVars
    /\ UNCHANGED <<length, seatbelts, msgOut, sent, scan_flag_messageOutput, msgList, write_flag, copied>>

(***************************************************************************)
(* MsgArray::In and MsgArray::Message: reading the built list.             *)
(***************************************************************************)
\* MsgArray::In::size
In_size == length

\* MsgArray::In::at: the handle returned, bound to the requested index
In_at(index) == [index |-> index]

\* variant: index >= length is true of the last bin too
IndexOutOfBounds_LastBin(index, len) == index + 1 >= len
\* MsgArray::In::at: index >= length
IndexOutOfBounds(index, len) == index >= len

\* what lies at cell i of the device buffer behind a message list: the bin's
\* field, or whatever memory follows the buffer
Beyond == 0 - 1
DeviceRead(list, i, name) == IF i \in DOMAIN list THEN list[i][name] ELSE Beyond

\* variant: the bound index is not compared with the length
Message_read_NoGuard(list, len, index, name) ==
    [value |-> DeviceRead(list, index, name), cells |-> {index}]
\* the body of both getVariable members: the value returned and the cells of
\* the message list read through Curve
Message_read(list, len, index, name) ==
    IF index < len
    THEN [value |-> DeviceRead(list, index, name), cells |-> {index}]
    ELSE [value |-> 0, cells |-> {}]

\* variant: the last bin is taken for out of bounds
Message_getVariable_OffByOne(list, m, name) ==
    IF m.index + 1 < length THEN list[m.index][name] ELSE 0
\* MsgArray::Message::getVariable<T, N>(variable_name)
Message_getVariable(list, m, name) ==
    Message_read(list, length, m.index, name).value

(***************************************************************************)
(* MsgArray::In::Filter and its iterator: the neighbourhood of an origin.  *)
(***************************************************************************)
\* the longest message list iterated
IterMaxLength == 10

\* an unsigned int sum s (possibly negative before conversion) modulo len
UIntMod(s, len) ==
    IF s >= 0 THEN s % len
    ELSE ((((65536 % len) * (65536 % len)) % len) + (s % len)) % len

\* Filter::Filter(_length, _combined_hash, x, _radius)
Filter(len, x, radius) == [length |-> len, loc |-> x, radius |-> radius]

\* Filter::Message::Message(parent, relative_x); index_1d = 0
Message(relative_x) == [relative_cell |-> relative_x, index_1d |-> 0]

\* Filter::Message::operator++: the next cell, the origin skipped, wrapped
Message_increment(f, m) ==
    LET rel == IF m.relative_cell + 1 = 0 THEN 1 ELSE m.relative_cell + 1 IN
    [relative_cell |-> rel,
     index_1d |-> UIntMod(f.loc + rel + f.length, f.length)]

\* Filter::Message::operator==, of two messages of parents f and g
Message_eq(f, a, g, b) == a.index_1d = b.index_1d /\ f.loc = g.loc

\* variant: the sum is not reduced modulo the length
getX_NoWrap(f, m) == f.loc + m.relative_cell
\* variant: the origin is left out of the sum
getX_NoOrigin(f, m) == UIntMod(m.relative_cell + f.length, f.length)
\* Filter::Message::getX
getX(f, m) == UIntMod(f.loc + m.relative_cell + f.length, f.length)

\* Filter::iterator::iterator(parent, relative_x)
iterator(f, relative_x) == Message_increment(f, Message(relative_x))

\* Filter::begin
Filter_begin(f) == iterator(f, (0 - f.radius) - 1)

\* variant: end() lies one cell further
Filter_end_OnePast(f) == iterator(f, f.radius + 1)
\* Filter::end
Filter_end(f) == iterator(f, f.radius)

\* MsgArray::In::Filter::Message::getVariable<T, N>(variable_name)
FilterMessage_getVariable(list, f, m, name) ==
    Message_read(list, f.length, m.index_1d, name).value

NoFilter == <<>>
NoIter == <<>>

\* variant: only a radius of 0 is rejected
InvalidRadius_ZeroOnly(radius, len) == radius = 0
\* MsgArray::In::operator(): radius == 0 || radius > length
InvalidRadius(radius, len) == radius = 0 \/ radius > len

\* MsgArray::In::operator()(x, radius): the radius check, then the filter
InOperatorCall(t, x, radius) ==
    /\ pc[t] = "run"
    /\ filter = NoFilter
    /\ filter' = Filter(length, x, radius)
    /\ IF seatbelts /\ InvalidRadius(radius, length)
       THEN DThrowBegin(t, Site_Radius(radius, length), "run")
       ELSE UNCHANGED errVars
    /\ UNCHANGED <<iter, visited>>

\* for (auto it = filter.begin(); ...
IterBegin(t) ==
    /\ pc[t] = "run"
    /\ filter # NoFilter
    /\ iter = NoIter
    /\ iter' = Filter_begin(filter)
    /\ UNCHANGED <<filter, visited>>
    /\ UNCHANGED errVars

\* ... it != filter.end(); ++it): the body reads the message's bin
IterStep(t) ==
    /\ pc[t] = "run"
    /\ iter # NoIter
    /\ ~Message_eq(filter, iter, filter, Filter_end(filter))
    /\ visited' = Append(visited, getX(filter, iter))
    /\ iter' = Message_increment(filter, iter)
    /\ UNCHANGED filter
    /\ UNCHANGED errVars

\* the loop ends when the iterator compares equal to end()
IterEnd(t) ==
    /\ pc[t] = "run"
    /\ iter # NoIter
    /\ Message_eq(filter, iter, filter, Filter_end(filter))
    /\ pc' = [pc EXCEPT ![t] = "done"]
    /\ UNCHANGED <<exc, buff, failed, claimants, detailWriters>>
    /\ UNCHANGED iterVars

InitMsg ==
    /\ length = MsgLength
    /\ seatbelts = TRUE
    /\ msgOut = [i \in Agents |-> [vars |-> ZeroMessage, index |-> 0]]
    /\ sent = [t \in Agents |-> ZeroMessage]
    /\ scan_flag_messageOutput = [i \in Agents |-> 0]
    /\ msgList = [b \in Bins |-> ZeroMessage]
    /\ write_flag = [i \in 0 .. (Max(MsgLength, NAgents) - 1) |-> 0]
    /\ copied = [t \in Threads |-> 0]
    /\ phase = "output"

(***************************************************************************)
(* Specifications.  Each one is a launch that exercises one component; the *)
(* state of the others is at rest.                                         *)
(***************************************************************************)
RestApi == InitApi
RestOut == InitOutWith(0, 0, 1)
RestBuild ==
    /\ msgOut = <<>>
    /\ sent = <<>>
    /\ scan_flag_messageOutput = <<>>
    /\ msgList = <<>>
    /\ write_flag = <<>>
    /\ copied = <<>>
    /\ phase = "none"
RestMsg ==
    /\ length = 1
    /\ seatbelts = TRUE
    /\ RestBuild
RestIter ==
    /\ filter = <<>>
    /\ iter = <<>>
    /\ visited = <<>>

\* a call of the API: the member function, the calling thread, the argument
\* passed (the variable name; the index for In::at) and the value returned
\* (0 for void)
Call(op, t, name, r) == [op |-> op, t |-> t, name |-> name, ret |-> r]
NoCall == Call("none", 0, <<>>, 0)
NoHandle == <<>>
RestCall ==
    /\ fn = "any"
    /\ call = NoCall
    /\ handle = [t \in Threads |-> NoHandle]

(***************************************************************************)
(* The error reporter alone: every thread of the launch may hit any DTHROW *)
(* site, any number of times, in any interleaving.                         *)
(***************************************************************************)
ErrSites == {Site_Index(2, 2), Site_Deep, Site_Empty}

Throw(t) ==
    /\ pc[t] = "run"
    /\ \E site \in ErrSites : DThrowBegin(t, site, "run")

InitErrSpec == InitErr /\ RestApi /\ RestOut /\ RestMsg /\ RestIter /\ RestCall

NextErr ==
    /\ \E t \in Threads :
          \/ Throw(t)
          \/ DeviceExceptionCtor(t)
          \/ DeviceExceptionSetMessage(t)
          \/ ThreadReturn(t)
    /\ UNCHANGED <<apiVars, outVars, msgVars, iterVars, callVars>>

SpecErr == InitErrSpec /\ [][NextErr]_vars

(***************************************************************************)
(* The recording of arguments: the first DTHROW of a launch passes any     *)
(* list of scalar and string arguments, also more than MAX_ARGS of them    *)
(* and more bytes than ARG_BUFF_LEN; later DTHROWs pass one scalar.        *)
(***************************************************************************)
ArgThreads == {0, 1}
\* lists of up to MAX_ARGS + 1 arguments, each an unsigned int, the empty
\* string, a string, or a string longer than any buffer
ArgLists ==
    LET ArgInputs == {UIntArg(1), StrArg(<<>>), StrArg(<<5, 6, 7, 8>>), StrArg(File_Deep)}
    IN UNION {[1 .. n -> ArgInputs] : n \in 0 .. (MAX_ARGS + 1)}
Site_Args(args) == [file |-> File_DeviceAPI, line |-> 1, format |-> Fmt_Index, args |-> args]

NextArgs ==
    /\ \E t \in ArgThreads :
          \/ /\ pc[t] = "run"
             /\ \E args \in (IF buff.error_count = 0 THEN ArgLists ELSE {<<UIntArg(2)>>}) :
                    DThrowBegin(t, Site_Args(args), "run")
             /\ call' = NoCall
          \/ DeviceExceptionCtor(t) /\ call' = NoCall
          \/ /\ DeviceExceptionSetMessage(t)
             /\ call' = Call("setMessage", t, <<>>, exc[t].site.args)
          \/ ThreadReturn(t) /\ call' = NoCall
    /\ UNCHANGED <<apiVars, outVars, msgVars, iterVars, fn, handle>>

SpecArgs == InitErrSpec /\ [][NextArgs]_vars

(***************************************************************************)
(* Agent functions that read and write their agent's variables.            *)
(***************************************************************************)
InitVarSpec == InitErr /\ InitApi /\ RestOut /\ RestMsg /\ RestIter /\ RestCall

NextVar ==
    /\ \E t \in Agents :
          \/ \E name \in ScalarNames, v \in ScalarValues : SetVariable(t, name, v)
          \/ \E name \in ArrayNames, ai \in ArrayInputs, v \in ArrayValues :
                SetArrayVariable(t, name, ai, v)
          \/ \E name \in ScalarNames : GetVariable(t, name)
          \/ \E name \in ArrayNames, ai \in ArrayInputs : GetArrayVariable(t, name, ai)
    /\ UNCHANGED <<errVars, outVars, msgVars, iterVars, callVars>>

SpecVar == InitVarSpec /\ [][NextVar]_vars

(***************************************************************************)
(* Agent functions that output a new agent.                                *)
(***************************************************************************)
InitOutSpec == InitErr /\ RestApi /\ InitOut /\ RestMsg /\ RestIter /\ RestCall

NextOut ==
    /\ \E t \in Agents :
          \/ \E name \in ScalarNames, v \in ArrayValues : AgentOutSetVariable(t, name, v)
          \/ \E name \in ArrayNames, ai \in ArrayInputs, v \in ArrayValues :
                AgentOutSetArrayVariable(t, name, ai, v)
          \/ AgentOutGetID(t)
    /\ UNCHANGED <<apiVars, msgVars, iterVars, callVars>>

SpecOut == InitOutSpec /\ [][NextOut]_vars

(***************************************************************************)
(* A step with array messages: the output kernel, then the build.          *)
(***************************************************************************)
InitMsgSpec ==
    /\ InitErr /\ RestApi /\ RestOut /\ InitMsg /\ RestIter /\ RestCall

NextMsg ==
    /\ \/ \E t \in Agents :
             \/ \E name \in MsgNameSet : MsgOutSetVariable(t, name, MsgInput(t, name))
                                         /\ UNCHANGED errVars
             \/ \E id \in Bins : MsgOutSetIndex(t, id) /\ UNCHANGED errVars
             \/ ThreadReturn(t) /\ UNCHANGED msgVars
             \/ ScatterCopy(t)
             \/ ScatterClaim(t)
       \/ \E t \in Threads :
             \/ GapScan(t)
             \/ DeviceExceptionCtor(t) /\ UNCHANGED msgVars
             \/ DeviceExceptionSetMessage(t) /\ UNCHANGED msgVars
       \/ BuildIndexReset
       \/ BuildIndexScan
       \/ BuildIndexEnd
    /\ UNCHANGED <<apiVars, outVars, iterVars, callVars>>

SpecMsg == InitMsgSpec /\ [][NextMsg]_vars

(***************************************************************************)
(* Successive steps of a simulation: once a build has ended the host       *)
(* starts the next step, whose output kernel produces new candidates and   *)
(* whose build runs over the buffers the previous build left.              *)
(***************************************************************************)
\* what the build that has just ended leaves behind
Outcome(errors, claimed) == [errors |-> errors, claimed |-> claimed]

\* the host starts the next step: a fresh error buffer and fresh scan flags
\* for the output kernel's threads; the message list and the write flags
\* are not touched before the step's build
StepBegin ==
    /\ phase = "ready"
    /\ pc' = [t \in Threads |-> "run"]
    /\ exc' = [t \in Threads |-> NoExc]
    /\ buff' = ZeroBuffer
    /\ failed' = {}
    /\ claimants' = {}
    /\ detailWriters' = {}
    /\ scan_flag_messageOutput' = [i \in Agents |-> 0]
    /\ sent' = [t \in Agents |-> ZeroMessage]
    /\ copied' = [t \in Threads |-> 0]
    /\ phase' = "output"
    /\ call' = Call("step", 0, <<>>,
                     Outcome(buff.error_count, {b \in Bins : write_flag[b] = 1}))
    /\ UNCHANGED <<length, seatbelts, msgOut, msgList, write_flag, fn, handle>>

NextStep ==
    /\ \/ \E t \in Agents :
             \/ \E id \in Bins : MsgOutSetIndex(t, id) /\ UNCHANGED <<errVars, callVars>>
             \/ ThreadReturn(t) /\ UNCHANGED <<msgVars, callVars>>
             \/ ScatterCopy(t) /\ UNCHANGED callVars
             \/ ScatterClaim(t) /\ UNCHANGED callVars
       \/ \E t \in Threads :
             \/ GapScan(t) /\ UNCHANGED callVars
             \/ DeviceExceptionCtor(t) /\ UNCHANGED <<msgVars, callVars>>
             \/ DeviceExceptionSetMessage(t) /\ UNCHANGED <<msgVars, callVars>>
       \/ BuildIndexReset /\ UNCHANGED callVars
       \/ BuildIndexScan /\ UNCHANGED callVars
       \/ BuildIndexEnd /\ UNCHANGED callVars
       \/ StepBegin
    /\ UNCHANGED <<apiVars, outVars, iterVars>>

SpecStep == InitMsgSpec /\ [][NextStep]_vars

(***************************************************************************)
(* One thread iterating a neighbourhood of a built list: any length, any   *)
(* origin in range, any radius from 0 to one past the length.              *)
(***************************************************************************)
IterThreads == {0}

InitIterSpec ==
    /\ InitErr /\ RestApi /\ RestOut /\ RestBuild /\ RestIter /\ RestCall
    /\ length \in 1 .. IterMaxLength
    /\ seatbelts \in BOOLEAN

NextIter ==
    /\ \E t \in IterThreads :
          \/ \E x \in 0 .. (length - 1), radius \in 0 .. (length + 1) :
                InOperatorCall(t, x, radius)
          \/ DeviceExceptionCtor(t) /\ UNCHANGED iterVars
          \/ DeviceExceptionSetMessage(t) /\ UNCHANGED iterVars
          \/ IterBegin(t)
          \/ IterStep(t)
          \/ IterEnd(t)
    /\ UNCHANGED <<apiVars, outVars, msgVars, callVars>>

SpecIter == InitIterSpec /\ [][NextIter]_vars

(***************************************************************************)
(* The build alone, for every length of the list up to the number of       *)
(* threads, with the checks compiled in and out: the threads declare bins, *)
(* and each step of the build records the cells it writes.                 *)
(***************************************************************************)
\* the cells of the message list and of the write-flag buffer a step writes
Cells(list, flag) == [list |-> list, flag |-> flag]

InitBuildSpec ==
    /\ InitErr /\ RestApi /\ RestOut /\ RestIter
    /\ fn = "build"
    /\ call = NoCall
    /\ handle = [t \in Threads |-> NoHandle]
    /\ length \in 1 .. NThreads
    /\ seatbelts \in BOOLEAN
    /\ msgOut = [i \in Agents |-> [vars |-> ZeroMessage, index |-> 0]]
    /\ sent = [t \in Agents |-> ZeroMessage]
    /\ scan_flag_messageOutput = [i \in Agents |-> 0]
    /\ msgList = ResetList(length)
    /\ write_flag = ResetFlags(length, NAgents)
    /\ copied = [t \in Threads |-> 0]
    /\ phase = "output"

NextBuild ==
    /\ \/ \E t \in Agents :
             \/ /\ MsgOutSetVariable(t, Name_x, MsgInput(t, Name_x))
                /\ call' = NoCall
                /\ UNCHANGED errVars
             \/ /\ \E id \in 0 .. (length - 1) : MsgOutSetIndex(t, id)
                /\ call' = NoCall
                /\ UNCHANGED errVars
             \/ /\ ThreadReturn(t)
                /\ call' = NoCall
                /\ UNCHANGED msgVars
             \/ /\ ScatterCopy(t)
                /\ call' = Call("scatter", t, <<>>,
                                 Cells(IF Live(ThreadIndex(t))
                                       THEN {Scatter_bin(msgOut, t)} ELSE {}, {}))
             \/ /\ ScatterClaim(t)
                /\ call' = Call("claim", t, <<>>, Cells({}, {Scatter_bin(msgOut, t)}))
       \/ \E t \in Threads :
             \/ GapScan(t) /\ call' = NoCall
             \/ DeviceExceptionCtor(t) /\ call' = NoCall /\ UNCHANGED msgVars
             \/ DeviceExceptionSetMessage(t) /\ call' = NoCall /\ UNCHANGED msgVars
       \/ /\ BuildIndexReset
          /\ call' = Call("reset", 0, <<>>,
                           Cells(DOMAIN ResetList(length),
                                 DOMAIN ResetFlags(length, NAgents)))
       \/ BuildIndexScan /\ call' = NoCall
       \/ BuildIndexEnd /\ call' = NoCall
    /\ UNCHANGED <<apiVars, outVars, iterVars, fn, handle>>

SpecBuild == InitBuildSpec /\ [][NextBuild]_vars

(***************************************************************************)
(* The input channel: a thread reads a built message list of length L      *)
(* through In::at and through the messages of a filter.                    *)
(***************************************************************************)
\* what the build left in bin b
Built(b) == [n \in MsgNameSet |-> MsgInput(b, n)]

\* MsgArray::In::at(index): the bounds check, then the handle
InAt(t, index) ==
    /\ pc[t] = "run"
    /\ handle' = [handle EXCEPT ![t] = In_at(index)]
    /\ call' = Call("MsgArray::In::at", t, index, In_at(index))
    /\ IF seatbelts /\ IndexOutOfBounds(index, length)
       THEN DThrowBegin(t, Site_Index(index, length), "run")
       ELSE UNCHANGED errVars

\* MsgArray::Message::getVariable(variable_name) on the handle the thread holds
MessageGetVariable(t, name) ==
    /\ pc[t] = "run"
    /\ handle[t] # NoHandle
    /\ call' = Call("MsgArray::Message::getVariable", t, name,
                     Message_read(msgList, length, handle[t].index, name))
    /\ UNCHANGED <<errVars, handle>>

\* getVariable(variable_name) on a message of a filter over the list: the
\* message an iterator holds after its operator++ from relative cell rel
FilterMessageGetVariable(t, x, radius, rel, name) ==
    LET f == Filter(length, x, radius)
        m == Message_increment(f, Message(rel))
    IN
    /\ pc[t] = "run"
    /\ call' = Call("MsgArray::In::Filter::Message::getVariable", t, name,
                     Message_read(msgList, f.length, m.index_1d, name))
    /\ UNCHANGED <<errVars, handle>>

InitInSpec ==
    /\ InitErr /\ RestApi /\ RestOut /\ RestIter
    /\ fn = "input"
    /\ call = NoCall
    /\ handle = [t \in Threads |-> NoHandle]
    /\ length \in 1 .. MsgLength
    /\ seatbelts \in BOOLEAN
    /\ msgList = [b \in 0 .. (length - 1) |-> Built(b)]
    /\ msgOut = <<>> /\ sent = <<>> /\ scan_flag_messageOutput = <<>>
    /\ write_flag = <<>> /\ copied = <<>>
    /\ phase = "ready"

NextIn ==
    /\ \E t \in IterThreads :
          \/ \E index \in 0 .. (length + 1) : InAt(t, index)
          \/ \E name \in MsgNameSet : MessageGetVariable(t, name)
          \/ \E x \in 0 .. (length - 1), radius \in 1 .. length,
                name \in MsgNameSet :
                \E rel \in ((0 - radius) - 1) .. (radius - 1) :
                   FilterMessageGetVariable(t, x, radius, rel, name)
          \/ DeviceExceptionCtor(t) /\ call' = NoCall /\ UNCHANGED handle
          \/ DeviceExceptionSetMessage(t) /\ call' = NoCall /\ UNCHANGED handle
    /\ UNCHANGED <<apiVars, outVars, msgVars, iterVars, fn>>

SpecIn == InitInSpec /\ [][NextIn]_vars

(***************************************************************************)
(* API calls one at a time: a launch of an agent function that writes its  *)
(* agent's variables, or outputs array messages, or outputs a new agent    *)
(* (with output enabled or disabled), each call recorded as it is made.    *)
(***************************************************************************)
\* the value thread t passes
CallValue(t) == t + 1

FirstElement == {0}
MsgCallNames == MsgNameSet \cup {Name_id}

InitCallSpec ==
    /\ InitErr /\ RestIter
    /\ call = NoCall
    /\ handle = [t \in Threads |-> NoHandle]
    /\ \/ fn = "variables" /\ InitApi /\ RestOut /\ RestMsg
       \/ fn = "messages" /\ RestApi /\ RestOut /\ InitMsg
       \/ /\ fn = "agent_out" /\ RestApi /\ RestMsg
          /\ \/ \E notSet \in {0, ID_MAX}, next \in {1, ID_MAX} :
                   InitOutWith(1, notSet, next)
             \/ InitOutWith(0, 0, 1)

NextCall ==
    /\ \E t \in Agents :
          \/ /\ fn = "variables"
             /\ \E name \in ScalarNames :
                   /\ SetVariable(t, name, CallValue(t))
                   /\ call' = Call("DeviceAPI::setVariable", t, name, 0)
             /\ UNCHANGED <<errVars, outVars, msgVars>>
          \/ /\ fn = "variables"
             /\ \E name \in ArrayNames, ai \in ArrayInputs :
                   /\ SetArrayVariable(t, name, ai, CallValue(t))
                   /\ call' = Call("DeviceAPI::setVariable[]", t, name, 0)
             /\ UNCHANGED <<errVars, outVars, msgVars>>
          \/ /\ fn = "messages"
             /\ \E name \in MsgCallNames :
                   /\ MsgOutSetVariable(t, name, MsgInput(t, name))
                   /\ call' = Call("MsgArray::Out::setVariable", t, name, 0)
             /\ UNCHANGED <<errVars, apiVars, outVars>>
          \/ /\ fn = "messages"
             /\ \E id \in Bins : MsgOutSetIndex(t, id)
             /\ call' = Call("MsgArray::Out::setIndex", t, <<>>, 0)
             /\ UNCHANGED <<errVars, apiVars, outVars>>
          \/ /\ fn = "agent_out"
             /\ \E name \in ScalarNames :
                   /\ AgentOutSetVariable(t, name, CallValue(t))
                   /\ call' = Call("AgentOut::setVariable", t, name, 0)
             /\ UNCHANGED <<apiVars, msgVars>>
          \/ /\ fn = "agent_out"
             /\ \E name \in ArrayNames, ai \in FirstElement :
                   /\ AgentOutSetArrayVariable(t, name, ai, CallValue(t))
                   /\ call' = Call("AgentOut::setVariable[]", t, name, 0)
             /\ UNCHANGED <<apiVars, msgVars>>
          \/ /\ fn = "agent_out"
             /\ AgentOutGetID(t)
             /\ call' = Call("AgentOut::getID", t, <<>>,
                              getID_return(agent_output_hash, agentOut, t))
             /\ UNCHANGED <<apiVars, msgVars>>
          \/ /\ DeviceExceptionCtor(t)
             /\ call' = NoCall
             /\ UNCHANGED <<apiVars, outVars, msgVars>>
          \/ /\ DeviceExceptionSetMessage(t)
             /\ call' = NoCall
             /\ UNCHANGED <<apiVars, outVars, msgVars>>
    /\ UNCHANGED <<iterVars, fn, handle>>

SpecCall == InitCallSpec /\ [][NextCall]_vars

(***************************************************************************)
(* Properties of the error reporter.                                       *)
(***************************************************************************)
\* the detail fields: everything in the buffer but error_count
DetailOf(b) == [b EXCEPT !.error_count = 0]

\* C1: at most one thread, the one whose atomic increment returned 0, ever
\* writes a detail field; a step of any other thread leaves every field of
\* the buffer but error_count as it was.
C1_OnlyFirstClaimantWritesDetail ==
    [][/\ Cardinality(claimants') <= 1
       /\ \A t \in Threads :
             (pc'[t] # pc[t] /\ DetailOf(buff') # DetailOf(buff)) => t \in claimants]_vars

\* the owner has recorded location and message while other threads failed too
C1_Witness ==
    /\ buff.error_count >= 3
    /\ buff.file_path[1] # 0
    /\ buff.format_string[1] # 0
    /\ \E t \in failed : t \notin claimants /\ pc[t] = "done"

\* C2 (as claimed): at the end of a launch in which F > 1 threads failed,
\* one location and message is recorded and error_count = F.
C2_ErrorCountIsFailedThreads ==
    (LaunchDone /\ Cardinality(failed) > 1) =>
        /\ buff.error_count = Cardinality(failed)
        /\ Cardinality(detailWriters) = 1
        /\ buff.file_path[1] # 0
        /\ buff.format_string[1] # 0

\* C17: at the end of a launch started with a zeroed buffer, error_count is
\* zero if and only if no thread reported a failure (and it is so at every
\* moment of the launch).
C17_ZeroCountIffNoFailure ==
    /\ (buff.error_count = 0) <=> (failed = {})
    /\ LaunchDone => ((buff.error_count = 0) <=> (\A t \in Threads : t \notin failed))

\* a launch has ended in which some threads failed, one of them more than
\* once, and some did not
C17_Witness ==
    /\ LaunchDone
    /\ failed # {} /\ failed # Threads
    /\ buff.error_count > Cardinality(failed)

(***************************************************************************)
(* Properties of agent output.                                             *)
(***************************************************************************)
\* C3: the ids of the threads that requested output (their scan flag is set)
\* are pairwise distinct.
C3_IdsPairwiseDistinct ==
    \A t, u \in Agents :
        (t # u /\ agentOut.scan_flag[ThreadIndex(t)] = 1
               /\ agentOut.scan_flag[ThreadIndex(u)] = 1) =>
            agentOut.id[t] # agentOut.id[u]

\* every thread of the launch has requested output and holds an id
C3_Witness ==
    \A t \in Agents :
        /\ agentOut.scan_flag[ThreadIndex(t)] = 1
        /\ incs[t] > 0
        /\ agentOut.id[t] # idNotSet

\* C4 (as claimed): a thread increments the shared next-id counter at most
\* once, whatever the counter's starting value.
C4_AtMostOneIncrementPerThread ==
    \A t \in Agents : incs[t] <= 1

(***************************************************************************)
(* Properties of the agent variable accessors.                             *)
(***************************************************************************)
\* C10: a thread that wrote v to a non-reserved variable (or array element)
\* reads v back from it, whatever the other threads did in between.
C10_GetReturnsOwnWrite ==
    ret # NoRet => ret = watch.val

\* the followed thread has read its value back while another thread's cell
\* of the same variable holds a different value that thread wrote
C10_Witness ==
    /\ ret # NoRet
    /\ \E u \in Agents \ {watch.t} :
          /\ agentVars[ThreadIndex(u)][watch.key] # 0
          /\ agentVars[ThreadIndex(u)][watch.key] # ret

(***************************************************************************)
(* Properties of array messages.                                           *)
(***************************************************************************)
\* the live candidates that declared bin b
Declarers(b) ==
    {t \in Agents : Live(ThreadIndex(t)) /\ msgOut[ThreadIndex(t)].index = b}

ScatterDone == phase = "scatter" /\ \A t \in Threads : pc[t] = "done"

\* the live candidates declare pairwise distinct bins that cover [0, L)
ExactCover == \A b \in Bins : Cardinality(Declarers(b)) = 1

\* C5: round trip.  When the live candidates declare pairwise distinct bins
\* covering [0, L), after the build size() is L, every bin reads back the
\* values its declarer wrote, and no error is reported.
C5_RoundTrip ==
    (phase = "ready" /\ ExactCover) =>
        /\ In_size = MsgLength
        /\ \A b \in Bins : \A t \in Declarers(b) : \A n \in MsgNameSet :
              Message_getVariable(msgList, In_at(b), n) = sent[t][n]
        /\ buff.error_count = 0

\* a built list in which every bin holds the non-zero x of its own declarer
C5_Witness ==
    /\ phase = "ready"
    /\ ExactCover
    /\ \A b \in Bins : \A t \in Declarers(b) :
          /\ sent[t][Name_x] = MsgInput(t, Name_x)
          /\ Message_getVariable(msgList, In_at(b), Name_x) = MsgInput(t, Name_x)

\* C6: collision detection.  Once the scatter threads have ended, in every
\* bin that several live candidates declared exactly one claim succeeded and
\* every other one failed; the failures are counted, and from then on one
\* detailed error, a collision, is on record.
C6_CollisionDetected ==
    /\ ScatterDone =>
          /\ \A b \in Bins : Cardinality(Declarers(b)) >= 2 =>
                Cardinality(Declarers(b) \ failed) = 1
          /\ \A b \in Bins : Cardinality(Declarers(b)) = 1 =>
                Declarers(b) \cap failed = {}
          /\ buff.error_count = Cardinality(failed)
    /\ ((ScatterDone \/ phase \in {"scan", "ready"})
          /\ \E b \in Bins : Cardinality(Declarers(b)) >= 2) =>
          /\ buff.error_count >= 1
          /\ Cardinality(claimants) = 1
          /\ detailWriters = claimants
          /\ buff.file_path[1] = File_Build[1]
          /\ SubSeq(buff.format_string, 1, Len(Fmt_Collision)) = Fmt_Collision
          /\ buff.arg_count = 1

\* every candidate declared the same bin and the build has ended
C6_Witness ==
    /\ phase = "ready"
    /\ \E b \in Bins : Declarers(b) = Agents
    /\ buff.error_count >= NAgents - 1
    /\ SubSeq(buff.format_string, 1, Len(Fmt_Collision)) = Fmt_Collision

C8_GapDetected ==
    (phase = "ready" /\ seatbelts) =>
        LET gaps == {k \in Bins : Declarers(k) = {}} IN
        gaps # {} =>
            /\ buff.error_count >= Cardinality(gaps)
            /\ buff.format_string[1] # 0

\* a build without collision has ended with a gap as its detailed error
C8_Witness ==
    /\ phase = "ready"
    /\ seatbelts
    /\ \E k \in Bins : Declarers(k) = {}
    /\ \A b \in Bins : Cardinality(Declarers(b)) <= 1
    /\ \E t \in Agents : Live(ThreadIndex(t))
    /\ buff.error_count >= 1
    /\ SubSeq(buff.format_string, 1, Len(Fmt_Gap)) = Fmt_Gap

(***************************************************************************)
(* Properties of neighbourhood iteration.                                  *)
(***************************************************************************)
\* the bins of the window of radius r about origin, in relative order
Window(len, origin, r) ==
    [i \in 1 .. (2 * r) |->
        LET k == IF i <= r THEN (i - r) - 1 ELSE i - r IN (origin + k + len) % len]

TraversalDone == iter # NoIter /\ \A t \in IterThreads : pc[t] = "done"

\* C9 (as claimed): for every length, origin and accepted radius, a
\* traversal from begin() to end() yields the 2*radius bins of the window,
\* in increasing relative order.
C9_TraversalYieldsWindow ==
    (TraversalDone /\ filter.radius >= 1 /\ filter.radius <= filter.length) =>
        visited = Window(filter.length, filter.loc, filter.radius)

Accepted == filter # NoFilter /\ 1 <= filter.radius /\ filter.radius <= filter.length

\* C23: for every L and every accepted radius > L/2, a completed traversal
\* from begin() to end() has read at least one bin twice.
C23_LargeRadiusReadsTwice ==
    (TraversalDone /\ Accepted /\ 2 * filter.radius > filter.length) =>
        \E i, j \in 1 .. Len(visited) : i < j /\ visited[i] = visited[j]

C25_EndWithinTwoRadiusIncrements ==
    (Accepted /\ iter # NoIter) =>
       /\ Len(visited) <= 2 * filter.radius
       /\ Len(visited) = 2 * filter.radius =>
             Message_eq(filter, iter, filter, Filter_end(filter))

\* an iterator has been incremented 2*radius times, radius >= 2, and
\* compares equal to end()
C25_Witness ==
    /\ Accepted /\ iter # NoIter
    /\ filter.radius >= 2
    /\ Len(visited) = 2 * filter.radius
    /\ iter.relative_cell = filter.radius + 1
    /\ Message_eq(filter, iter, filter, Filter_end(filter))

\* C26: for every origin and accepted radius, the bin index held by begin(),
\* by end() and by the iterator after any number of increments lies in
\* [0, L), and so does the cell a getVariable on its message reads.
C26_IteratorIndexInRange ==
    Accepted =>
       LET InRange(m) ==
             /\ m.index_1d \in 0 .. (filter.length - 1)
             /\ getX(filter, m) \in 0 .. (filter.length - 1)
             /\ Message_read(msgList, filter.length, m.index_1d, Name_x).cells = {m.index_1d}
       IN
       /\ InRange(Message(0 - filter.radius))
       /\ InRange(Filter_begin(filter))
       /\ InRange(Filter_end(filter))
       /\ iter # NoIter => InRange(iter)

\* an iterator over the whole list (radius = L >= 2) from the first bin holds
\* the last bin, reached by wrapping around below bin 0
C26_Witness ==
    /\ Accepted /\ iter # NoIter
    /\ filter.radius = filter.length /\ filter.length >= 2
    /\ filter.loc = 0
    /\ iter.relative_cell < 0
    /\ iter.index_1d = filter.length - 1
    /\ Len(visited) >= 1

\* C16: with the checks compiled in, a call of In::operator()(origin, radius)
\* reports an error (error_count goes up by one, at the call's DTHROW with
\* radius and L as arguments) when radius = 0 or radius > L, and reports
\* nothing when 1 <= radius <= L; either way the filter is returned.
C16_RadiusRejectedExactly ==
    [][(filter = NoFilter /\ filter' # NoFilter /\ seatbelts) =>
         /\ filter'.length = length
         /\ IF 1 <= filter'.radius /\ filter'.radius <= length
            THEN UNCHANGED <<buff, failed, exc, pc>>
            ELSE /\ buff'.error_count = buff.error_count + 1
                 /\ \E t \in IterThreads :
                       /\ exc'[t].site = Site_Radius(filter'.radius, length)
                       /\ failed' = failed \cup {t}]_vars

\* a radius one above L was reported, its detail recorded, and the thread
\* went on to iterate the filter it was given
C16_Witness ==
    /\ seatbelts
    /\ filter # NoFilter
    /\ length > 1
    /\ filter.radius = length + 1
    /\ buff.error_count = 1
    /\ buff.format_string[1] # 0
    /\ iter # NoIter

(***************************************************************************)
(* Properties of single API calls (SpecCall).  call' is the call a step    *)
(* makes; the steps inside a DTHROW leave call' = NoCall.                  *)
(***************************************************************************)
SetCalls == {"DeviceAPI::setVariable", "DeviceAPI::setVariable[]",
             "MsgArray::Out::setVariable",
             "AgentOut::setVariable", "AgentOut::setVariable[]"}
AgentOutSetCalls == {"AgentOut::setVariable", "AgentOut::setVariable[]"}
AgentOutCalls == AgentOutSetCalls \cup {"AgentOut::getID"}

ReservedWrite(c) == c.op \in SetCalls /\ Reserved(c.name)

\* what the API stores, and what a report of an error changes
StoresUnchanged == UNCHANGED <<agentVars, agentOut, msgOut, scan_flag_messageOutput>>
NoReport == UNCHANGED <<buff, failed, exc, pc>>

\* C11 as stated: a write to a reserved name through any of the four setters
\* changes no stored value and reports no error.
C11_ReservedWriteSilentNoOp ==
    [][ReservedWrite(call') => (StoresUnchanged /\ NoReport)]_vars

\* C11 amended: a write to a reserved name through DeviceAPI::setVariable
\* (scalar or array), MsgArray::Out::setVariable, or AgentOut::setVariable
\* while agent output is enabled changes no stored value and reports no
\* error.
C11_ReservedWriteSilentNoOpWhenEnabled ==
    [][(/\ ReservedWrite(call')
        /\ call'.op \in AgentOutSetCalls => agent_output_hash # 0)
       => (StoresUnchanged /\ NoReport)]_vars

\* a reserved name has just been written by a thread that had already stored
\* a value of its own
C11_Witness ==
    /\ ReservedWrite(call)
    /\ \/ fn = "variables" /\ \E k \in Keys : agentVars[ThreadIndex(call.t)][k] # 0
       \/ fn = "messages" /\ msgOut[ThreadIndex(call.t)].vars # ZeroMessage
       \/ fn = "agent_out" /\ agentOut.scan_flag[ThreadIndex(call.t)] = 1

OwnCellCalls == {"DeviceAPI::setVariable", "DeviceAPI::setVariable[]",
                 "MsgArray::Out::setVariable"}

\* C12: in every interleaving, a setVariable call of a thread (agent variable
\* or message variable) leaves the agent cell and the candidate slot of every
\* other logical index unchanged, and no two threads have the same logical
\* index.
C12_WritesOnlyOwnCell ==
    [][call'.op \in OwnCellCalls =>
         /\ \A i \in DOMAIN agentVars \ {ThreadIndex(call'.t)} : agentVars'[i] = agentVars[i]
         /\ \A i \in DOMAIN msgOut \ {ThreadIndex(call'.t)} : msgOut'[i] = msgOut[i]
         /\ \A u \in Agents \ {call'.t} : ThreadIndex(u) # ThreadIndex(call'.t)]_vars

\* a thread has just written a message variable while another thread, which
\* declared the same bin, holds a value of its own in that variable
C12_Witness ==
    /\ call.op = "MsgArray::Out::setVariable"
    /\ ~Reserved(call.name)
    /\ msgOut[ThreadIndex(call.t)].vars[call.name] = MsgInput(call.t, call.name)
    /\ \E u \in Agents \ {call.t} :
          /\ msgOut[ThreadIndex(u)].vars[call.name] = MsgInput(u, call.name)
          /\ scan_flag_messageOutput[ThreadIndex(u)] = 1
          /\ scan_flag_messageOutput[ThreadIndex(call.t)] = 1
          /\ msgOut[ThreadIndex(u)].index = msgOut[ThreadIndex(call.t)].index

\* C13: while agent output is disabled, every AgentOut::setVariable (scalar
\* or array, any name) and AgentOut::getID call reports an error (error_count
\* goes up by one and the thread enters the DTHROW of its call site), getID
\* returns ID_NOT_SET, and the next-id counter, the ids, the scan flags and
\* the new-agent fields are unchanged.
C13_DisabledCallReportsAndChangesNothing ==
    [][(call'.op \in AgentOutCalls /\ agent_output_hash = 0) =>
         /\ buff'.error_count = buff.error_count + 1
         /\ pc'[call'.t] = "ctor"
         /\ exc'[call'.t].site =
               (CASE call'.op = "AgentOut::setVariable" -> Site_AgentOutSet
                  [] call'.op = "AgentOut::setVariable[]" -> Site_AgentOutSetArray
                  [] call'.op = "AgentOut::getID" -> Site_AgentOutGetID)
         /\ call'.op = "AgentOut::getID" => call'.ret = idNotSet
         /\ agentOut' = agentOut]_vars

\* with output disabled, a thread has called getID after the launch's first
\* error had been reported, with a counter that differs from ID_NOT_SET
C13_Witness ==
    /\ agent_output_hash = 0
    /\ call.op = "AgentOut::getID"
    /\ call.ret = idNotSet
    /\ agentOut.nextID # idNotSet
    /\ buff.error_count > 1

\* C20: with agent output enabled, a getID call of a thread that was already
\* given an id (its scan flag is set) returns that id again, and a setVariable
\* call leaves the value it wrote in the thread's field.
C20_GetIDReturnsSameId ==
    [][agent_output_hash # 0 =>
         /\ (call'.op = "AgentOut::getID" /\ agentOut.scan_flag[ThreadIndex(call'.t)] = 1)
               => call'.ret = agentOut.id[call'.t]
         /\ (call'.op = "AgentOut::setVariable" /\ ~Reserved(call'.name))
               => CurveGet(agentOut'.vars, call'.name, 0, ThreadIndex(call'.t)) = CallValue(call'.t)]_vars

\* C19: from every state of a message-output launch, for every thread, bin,
\* name and value, setIndex then setVariable leaves the same candidate slots
\* (contents and declared bin) and scan flags as setVariable then setIndex.
C19_SetIndexSetVariableCommute ==
    fn = "messages" =>
      LET st == OutState(msgOut, scan_flag_messageOutput) IN
      \A t \in Agents, b \in Bins, name \in MsgCallNames :
         Out_setVariable(Out_setIndex(st, t, b), t, name, MsgInput(t, name))
           = Out_setIndex(Out_setVariable(st, t, name, MsgInput(t, name)), t, b)

\* a thread has declared the last bin and then written a variable, after
\* another thread did the two in the other order
C19_Witness ==
    /\ call.op = "MsgArray::Out::setVariable"
    /\ ~Reserved(call.name)
    /\ msgOut[ThreadIndex(call.t)] =
          [vars |-> [ZeroMessage EXCEPT ![call.name] = MsgInput(call.t, call.name)],
           index |-> MsgLength - 1]
    /\ scan_flag_messageOutput[ThreadIndex(call.t)] = 1
    /\ \E u \in Agents \ {call.t} :
          /\ scan_flag_messageOutput[ThreadIndex(u)] = 1
          /\ msgOut[ThreadIndex(u)].vars # ZeroMessage

(***************************************************************************)
(* Properties of the input channel (SpecIn).                               *)
(***************************************************************************)
\* C14: In::at(index) returns a handle bound to the requested index and the
\* thread continues after the call, whatever the index; with the checks
\* compiled in it reports an error (error_count goes up by one, at the call's
\* DTHROW with index and L as arguments) when index >= L; it reports nothing
\* when index < L.
C14_AtReportsExactlyOutOfBounds ==
    [][call'.op = "MsgArray::In::at" =>
         LET t == call'.t
             index == call'.name
         IN
         /\ call'.ret.index = index
         /\ handle'[t] = call'.ret
         /\ pc'[t] # "done"
         /\ index < length => UNCHANGED <<buff, failed, exc, pc>>
         /\ (seatbelts /\ index >= length) =>
               /\ buff'.error_count = buff.error_count + 1
               /\ exc'[t].site = Site_Index(index, length)
               /\ exc'[t].resume = "run"]_vars

\* with the checks compiled in, the thread has read a variable through the
\* handle that an out-of-bounds at() gave it, after the error was recorded
C14_Witness ==
    /\ seatbelts
    /\ call.op = "MsgArray::Message::getVariable"
    /\ handle[call.t].index > length
    /\ buff.error_count = 1
    /\ buff.format_string[1] # 0

GetVariableCalls == {"MsgArray::Message::getVariable",
                     "MsgArray::In::Filter::Message::getVariable"}

\* C15: a getVariable call on a message handle reads only cells of the message
\* list, [0, L); on a handle bound to an index < L it reads that bin's field
\* and returns it, and on a handle bound to an index >= L it reads no cell
\* and returns 0; the message of a filter is always bound to a bin < L.
C15_GetVariableReadsInBoundsOnly ==
    call.op \in GetVariableCalls =>
      /\ call.ret.cells \subseteq 0 .. (length - 1)
      /\ \A c \in call.ret.cells : call.ret.value = msgList[c][call.name]
      /\ call.op = "MsgArray::Message::getVariable" =>
            IF handle[call.t].index < length
            THEN call.ret.cells = {handle[call.t].index}
            ELSE call.ret.cells = {} /\ call.ret.value = 0
      /\ call.op = "MsgArray::In::Filter::Message::getVariable" =>
            Cardinality(call.ret.cells) = 1

\* with the checks compiled out, a variable was read through a handle bound
\* past the end of a list whose bins hold no zero
C15_Witness ==
    /\ ~seatbelts
    /\ call.op = "MsgArray::Message::getVariable"
    /\ handle[call.t].index > length
    /\ call.ret.value = 0
    /\ \A b \in DOMAIN msgList : msgList[b][call.name] # 0

(***************************************************************************)
(* Properties of the build alone (SpecBuild).                              *)
(***************************************************************************)
BuildSteps == {"reset", "scatter", "claim"}

\* C18: whatever bins the live candidates declared (collisions and gaps
\* included) and with the checks compiled in or out, every step of the build
\* writes only message-list cells with index in [0, L) and write-flag cells
\* with index below max(L, thread count), and the two buffers keep these
\* extents.
C18_BuildWritesInsideBuffers ==
    LET flags == IF length > NAgents THEN length ELSE NAgents IN
    fn = "build" =>
      /\ DOMAIN msgList = 0 .. (length - 1)
      /\ DOMAIN write_flag = 0 .. (flags - 1)
      /\ call.op \in BuildSteps =>
            /\ call.ret.list \subseteq 0 .. (length - 1)
            /\ call.ret.flag \subseteq 0 .. (flags - 1)

\* in a list longer than the number of threads, a scatter thread has claimed
\* the last bin, which another live thread declared too, with an error on
\* record and a bin left without a declarer
C18_Witness ==
    /\ call.op = "claim"
    /\ length > NAgents
    /\ call.ret.flag = {length - 1}
    /\ buff.error_count >= 1
    /\ \E u \in Agents \ {call.t} :
          /\ Live(ThreadIndex(u))
          /\ msgOut[ThreadIndex(u)].index = length - 1
    /\ \E b \in 0 .. (length - 1) :
          \A u \in Agents : Live(ThreadIndex(u)) => msgOut[ThreadIndex(u)].index # b

(***************************************************************************)
(* Properties of identity generation (SpecCall, agent output enabled).     *)
(***************************************************************************)
\* a call of AgentOut by a thread for which no earlier call has triggered
\* agent output: its first call, or a call after calls that changed nothing
Untriggered(t) ==
    /\ agentOut.scan_flag[ThreadIndex(t)] = 0
    /\ agentOut.id[t] = idNotSet
    /\ incs[t] = 0

\* the step triggers agent output for thread t: the shared counter goes up by
\* one (modulo the width of the id type), the new agent's _id at the thread's
\* slot holds the id issued, and the thread's scan flag is 1
Triggers(t) ==
    /\ agentOut'.nextID = (agentOut.nextID + 1) % (ID_MAX + 1)
    /\ CurveGet(agentOut'.vars, Name_id, 0, ThreadIndex(t)) = agentOut.nextID
    /\ agentOut'.id[t] = agentOut.nextID
    /\ agentOut'.scan_flag[ThreadIndex(t)] = 1

C22_IssuedIdsIncrease ==
    [][\A t \in Agents :
         agentOut'.id[t] # agentOut.id[t] =>
           \A u \in Agents :
              agentOut.scan_flag[ThreadIndex(u)] = 1 => agentOut'.id[t] > agentOut.id[u]]_vars

(***************************************************************************)
(* Properties of the owner's copies into the buffer (SpecErr).             *)
(***************************************************************************)
\* thread t holds the exception object that owns the error
Owner(t) == exc[t].hasError

\* the fields of the buffer that record where the error happened
Location(b) == <<b.file_path, b.line_no, b.block_id, b.thread_id>>
\* the fields of the buffer that record the message
MessageOf(b) ==
    <<b.format_string, b.format_args, b.format_args_sizes, b.arg_count, b.arg_offset>>

\* C27: the owner's copy of the file path writes at most FILE_BUFF_LEN
\* bytes and changes no field of the buffer other than file_path, whatever
\* the length of the path; the copy of the format string writes at most
\* FORMAT_BUFF_LEN bytes and changes, of the fields before the arguments,
\* only format_string.
C27_CopiesStayInTheirField ==
    [][\A t \in Threads :
         /\ (pc[t] = "ctor" /\ pc'[t] = "setMessage" /\ Owner(t)) =>
               /\ strlen(exc[t].site.file) <= FILE_BUFF_LEN
               /\ FilePathCopy(buff, exc[t].site.file) =
                     [buff EXCEPT !.file_path = FilePathCopy(buff, exc[t].site.file).file_path]
               /\ buff'.format_string = buff.format_string
         /\ (pc[t] = "setMessage" /\ pc'[t] # "setMessage" /\ Owner(t)) =>
               /\ FormatEos(exc[t].site.format, 0) <= FORMAT_BUFF_LEN
               /\ Location(buff') = Location(buff)
               /\ buff'.error_count = buff.error_count]_vars

\* the owner's setMessage has returned
OwnerReported == \E t \in claimants : ~Owner(t)

\* the format strings and argument lists of a further setMessage call
FurtherFormats == {<<>>, Fmt_AgentOutput, Fmt_Index}
FurtherArgs == {<<>>, <<UIntArg(1)>>, <<UIntArg(2), UIntArg(2)>>}

\* a further setMessage call, on the owner's object or on another one, with
\* any format and arguments, leaves the recorded message as it is
FurtherCallsChangeNothing ==
    \A he \in BOOLEAN, format \in FurtherFormats, args \in FurtherArgs :
        MessageOf(setMessage(buff, he, format, args)) = MessageOf(buff)

OwnerLocated == \E t \in claimants : ~(pc[t] = "ctor" /\ Owner(t))

\* C29: once the buffer is claimed and the owner has recorded the source
\* location, file_path, line_no, block_id and thread_id never change for the
\* rest of the launch; and every step of a later failure, by another thread
\* or by the owner thread again, changes nothing of the buffer but
\* error_count.
C29_LocationFixedOnceClaimed ==
    [][/\ OwnerLocated => Location(buff') = Location(buff)
       /\ \A t \in Threads :
             (claimants # {} /\ pc'[t] # pc[t] /\ ~Owner(t) /\ ~exc'[t].hasError)
                => [buff' EXCEPT !.error_count = buff.error_count] = buff]_vars

\* the owner thread has failed a second time after another thread failed,
\* and the location is still the one its first failure recorded
C29_Witness ==
    /\ buff.error_count = 3
    /\ \E t \in claimants :
          /\ pc[t] = "setMessage" /\ ~Owner(t)
          /\ exc[t].site = Site_Index(2, 2)
          /\ buff.line_no = Site_Empty.line
          /\ buff.thread_id[1] = threadIdx(t) /\ buff.block_id[1] = blockIdx(t)
    /\ failed # claimants

(***************************************************************************)
(* Properties of successive builds (SpecStep).                             *)
(***************************************************************************)
\* the bins no live candidate of this step declared
Gaps == {k \in Bins : Declarers(k) = {}}

\* C30: the write flags are cleared at the start of every build, so a build's
\* outcome depends only on its own step's live candidates, whatever the
\* previous build left: while a build runs, a write flag is set only for a
\* bin a live candidate of this step declared; the build ends without error
\* exactly when the candidates are collision-free and cover [0, L); and every
\* gap of this step is counted and reported, also for a bin that was claimed
\* in the previous step.
C30_BuildDependsOnOwnCandidates ==
    /\ phase \in {"scatter", "scan", "ready"} =>
          \A b \in Bins : write_flag[b] = 1 => Declarers(b) # {}
    /\ phase = "ready" =>
          /\ (buff.error_count = 0) <=> ExactCover
          /\ Gaps # {} =>
                /\ buff.error_count >= Cardinality(Gaps)
                /\ buff.format_string[1] # 0

\* a later step's build over collision-free candidates covering [0, L) has
\* ended without error, after a build that reported errors
C30_Witness ==
    /\ call.op = "step"
    /\ call.ret.errors >= 1
    /\ phase = "ready"
    /\ ExactCover
    /\ buff.error_count = 0
    /\ \A b \in Bins : write_flag[b] = 1

\* a later step's build has reported a gap at a bin that the build before it
\* had claimed
C30_GapAfterClaim ==
    /\ call.op = "step"
    /\ phase = "ready"
    /\ \E k \in Gaps : k \in call.ret.claimed
    /\ \A b \in Bins : Cardinality(Declarers(b)) <= 1
    /\ SubSeq(buff.format_string, 1, Len(Fmt_Gap)) = Fmt_Gap

(***************************************************************************)
(* Properties of the recorded arguments (SpecArgs).                        *)
(***************************************************************************)
Min(a, b) == IF a <= b THEN a ELSE b

\* the size in bytes of an argument as passed, and its bytes
ArgSize(a) == IF a.str THEN strlen(a.val) ELSE a.size
ArgBytes(a) == [i \in 1 .. ArgSize(a) |-> CharAt(a.val, i - 1)]

\* the sum of the first k entries of a sequence of sizes
RECURSIVE SumSizes(_, _)
SumSizes(sizes, k) == IF k = 0 THEN 0 ELSE SumSizes(sizes, k - 1) + sizes[k]

\* the k-th argument recorded in buffer b is argument a
RecordedIs(b, k, a) ==
    /\ b.format_args_sizes[k] = ArgSize(a)
    /\ LET off == SumSizes(b.format_args_sizes, k - 1) IN
       /\ off + ArgSize(a) <= ARG_BUFF_LEN
       /\ \A i \in 1 .. ArgSize(a) : b.format_args[off + i] = ArgBytes(a)[i]

\* C31: when the owner's setMessage returns, arg_count is min(n, MAX_ARGS)
\* for the n arguments passed, and the k-th argument recorded has the size
\* and the bytes of the k-th argument passed, for every k up to arg_count.
C31_ArgumentsRecordedPositionally ==
    [][\A t \in ArgThreads :
         (pc[t] = "setMessage" /\ pc'[t] # "setMessage" /\ Owner(t)) =>
            LET args == exc[t].site.args IN
            /\ buff'.arg_count = Min(Len(args), MAX_ARGS)
            /\ \A k \in 1 .. Min(buff'.arg_count, Len(args)) :
                  RecordedIs(buff', k, args[k])]_vars

\* C32: in every reachable state arg_count <= MAX_ARGS, arg_offset <=
\* ARG_BUFF_LEN, arg_offset is the sum of the first arg_count recorded sizes,
\* and (the recorded arguments lying one after the other from offset 0) no
\* argument byte lies at or beyond ARG_BUFF_LEN.
C32_ArgumentBufferWithinBounds ==
    /\ buff.arg_count <= MAX_ARGS
    /\ buff.arg_offset <= ARG_BUFF_LEN
    /\ buff.arg_offset = SumSizes(buff.format_args_sizes, buff.arg_count)
    /\ \A i \in 1 .. ARG_BUFF_LEN : i > buff.arg_offset => buff.format_args[i] = 0
    /\ Len(buff.format_args) = ARG_BUFF_LEN /\ Len(buff.format_args_sizes) = MAX_ARGS

\* the owner has recorded MAX_ARGS arguments that fill the buffer to its last
\* byte, and a later failing thread has passed through setMessage
C32_Witness ==
    /\ call.op = "setMessage"
    /\ call.t \notin claimants
    /\ buff.arg_count = MAX_ARGS
    /\ buff.arg_offset = ARG_BUFF_LEN
    /\ buff.error_count >= 2

(***************************************************************************)
(* Properties of the agent-output scan flags (SpecOut).                    *)
(***************************************************************************)
\* C33: within a launch a thread's agent-output scan flag only changes from 0
\* to 1 and only by that thread's own call; the thread writes it at most
\* once (it runs the body of genID, which writes the flag, at most once); and
\* in every state the flag is 1 exactly when the thread's private id is not
\* ID_NOT_SET.
C33_ScanFlagSetOnceWithId ==
    [][\A t \in Agents :
         LET i == ThreadIndex(t) IN
         /\ agentOut'.scan_flag[i] # agentOut.scan_flag[i] =>
               /\ agentOut.scan_flag[i] = 0
               /\ agentOut'.scan_flag[i] = 1
               /\ incs'[t] = incs[t] + 1
         /\ incs'[t] <= 1
         /\ (agentOut'.scan_flag[i] = 1) <=> (agentOut'.id[t] # idNotSet)]_vars

(***************************************************************************)
(* Properties of candidates that declared no bin (SpecMsg).                *)
(***************************************************************************)
\* thread t has called setVariable and its message scan flag is not set
WroteWithoutIndex(t) ==
    /\ scan_flag_messageOutput[ThreadIndex(t)] = 0
    /\ \E n \in MsgNameSet : sent[t][n] # 0

\* the bins that no candidate with its scan flag set declared
Undeclared ==
    {b \in Bins : \A u \in Agents :
        scan_flag_messageOutput[ThreadIndex(u)] = 1 => msgOut[ThreadIndex(u)].index # b}

\* the build takes no notice of thread t's candidate: none of the values it
\* wrote is in any bin, its scatter thread copies nothing and reports no
\* collision, and the bin its slot names is claimed only if a live
\* candidate declared it and is otherwise reported as a gap
Disregarded(t) ==
    /\ phase \in {"scatter", "scan", "ready"} =>
          /\ \A b \in Bins, n \in MsgNameSet : sent[t][n] # 0 => msgList[b][n] # sent[t][n]
          /\ copied[t] = 0
          /\ \A b \in Undeclared : write_flag[b] = 0
    /\ phase = "scatter" => (t \notin failed /\ pc[t] \in {"scatter", "done"})
    /\ (phase = "ready" /\ Undeclared # {}) =>
          /\ buff.error_count >= Cardinality(Undeclared)
          /\ buff.format_string[1] # 0

\* C34: setVariable does not set the thread's message scan flag, only
\* setIndex does; and the build takes no notice of the candidate of a thread
\* that called setVariable and never setIndex.
C34_UndeclaredCandidateIsNotLive ==
    [][/\ sent' # sent => scan_flag_messageOutput' = scan_flag_messageOutput
       /\ \A t \in Agents :
             /\ scan_flag_messageOutput'[ThreadIndex(t)] # scan_flag_messageOutput[ThreadIndex(t)]
                   => msgOut'[ThreadIndex(t)].vars = msgOut[ThreadIndex(t)].vars
             /\ WroteWithoutIndex(t)' => Disregarded(t)']_vars

\* a build has ended in which one thread wrote both variables and declared
\* no bin, the other thread's candidate is in bin 1, and bin 0, which the
\* first thread's slot names, was reported as a gap
C34_Witness ==
    /\ phase = "ready"
    /\ \E t \in Agents :
          /\ scan_flag_messageOutput[ThreadIndex(t)] = 0
          /\ \A n \in MsgNameSet : sent[t][n] = MsgInput(t, n)
          /\ msgOut[ThreadIndex(t)].index = 0
          /\ \E u \in Agents \ {t} :
                /\ scan_flag_messageOutput[ThreadIndex(u)] = 1
                /\ msgOut[ThreadIndex(u)].index = 1
                /\ msgList[1] = sent[u]
    /\ msgList[0] = ZeroMessage
    /\ buff.error_count >= 1
    /\ SubSeq(buff.format_string, 1, Len(Fmt_Gap)) = Fmt_Gap

====
